---- MODULE Spec2Model ----
(***************************************************************************)
(* A model of infact's typed-variable environment                          *)
(* (src/src/infact/environment.h): the per-type variable maps              *)
(* (VarMapImpl, VarMap<T>, VarMap<vector<T> >), the alias resolution of    *)
(* ReadAndSetFromExistingVariable, the brace/comma grammar of the vector   *)
(* map, Copy and the printing of a map.                                    *)
(*                                                                         *)
(* environment.h declares Environment only as an interface; the concrete   *)
(* environment, the stream tokenizer and Initializer<T> live in files that *)
(* are not part of src/.  Their definitions below follow the design        *)
(* document (sections 4.2 and 6) and are marked as such.                   *)
(*                                                                         *)
(* The instance modelled: T = int, with the two registered maps "int"      *)
(* (VarMap<int>) and "int[]" (VarMap<vector<int> >).                       *)
(***************************************************************************)
EXTENDS Integers, Sequences, FiniteSets, TLC

VARIABLES
  envs,   \* the live Environment objects: environment id -> [types, var_map]
  st,     \* the StreamTokenizer handed to the last ReadAndSet: [toks, pos]
  err,    \* the error raised through Error(), kind "none" when there is none
  out,    \* what the last Print call wrote to its ostream, a sequence of lines
  last,   \* the last operation performed and what it observed
  ins,    \* history: per map, the keys of vars_ in the order of first insertion
  nops    \* number of operations performed so far (counted in Spec)

vars == <<envs, st, err, out, last, ins, nops>>

-----------------------------------------------------------------------------
(* Bounds of the model.                                                    *)

\* Operations per behaviour.
MaxOps == 3

\* Elements of a brace-delimited vector initialiser.
MaxElems == 2

-----------------------------------------------------------------------------
(* The inputs.                                                             *)

\* The variables of the interpreted program, with their declared types.
Names == {"x", "y", "xs"}

\* The vector variables: xs, and ys, which the frame specification adds.
VecNames == {"xs", "ys"}

DeclaredType ==
  [n \in Names \cup VecNames |-> IF n \in VecNames THEN "int[]" ELSE "int"]

IntLits == {"1", "2"}

Tokens == {"{", "}", ","} \cup IntLits \cup Names

\* The two environments of the model: 1 is created empty, 2 is made by Copy.
EnvIds == {1, 2}

\* The id under which the per-element copy of VarMap<vector<T> >::ReadAndSet
\* lives while one element is read.
EphemeralId == 0

-----------------------------------------------------------------------------
(* StreamTokenizer (stream-tokenizer.h is not part of src/; section 6:     *)
(* Peek is a non-consuming look-ahead, Next consumes and returns).         *)

NewStream(toks) == [toks |-> toks, pos |-> 1]

HasNext(s) == s.pos <= Len(s.toks)

\* Peek() at the end of the stream yields the empty token.
Peek(s) == IF HasNext(s) THEN s.toks[s.pos] ELSE ""

Next_(s) == IF HasNext(s) THEN [s EXCEPT !.pos = @ + 1] ELSE s

-----------------------------------------------------------------------------
(* Errors raised through Error(): the call does not return.                *)

NoError == [kind |-> "none", idx |-> 0, var |-> ""]

SyntaxError(varname) == [kind |-> "SyntaxError", idx |-> 0, var |-> varname]

InitError(varname) == [kind |-> "InitError", idx |-> 0, var |-> varname]

UnknownTypeError(varname) ==
  [kind |-> "UnknownTypeError", idx |-> 0, var |-> varname]

\* "trouble initializing element <idx> of variable <varname>"
ElementInitError(idx, varname) ==
  [kind |-> "ElementInitError", idx |-> idx, var |-> varname]

-----------------------------------------------------------------------------
(* ValueString<T>::ToString.                                               *)

\* ValueString<int>: oss << value.
ToStringInt(value) == ToString(value)

RECURSIVE JoinFrom(_, _)
\* The loop of ValueString<vector<T> >::ToString over the elements after
\* the first: each is preceded by ", ".
JoinFrom(value, i) ==
  IF i > Len(value) THEN ""
  ELSE ", " \o ToStringInt(value[i]) \o JoinFrom(value, i + 1)

\* ValueString<vector<T> >::ToString.
ToStringVector(value) ==
  "{" \o (IF Len(value) > 0 THEN ToStringInt(value[1]) ELSE "")
      \o JoinFrom(value, 2) \o "}"

-----------------------------------------------------------------------------
(* VarMapBase and VarMapImpl<T, Derived>.                                  *)

\* An empty unordered_map<string, T>.
EmptyVars == [n \in {} |-> 0]

\* The VarMapBase constructor; kind is the concrete class (VarMap<int> or
\* VarMap<vector<int> >), elem the element_typename_ of a vector map.
NewVarMap(name, kind, elem, env, is_primitive) ==
  [name |-> name, kind |-> kind, elem |-> elem, env |-> env,
   is_primitive |-> is_primitive, vars |-> EmptyVars]

\* T(): the value-initialised T.
DefaultValue(m) == IF m.kind = "vector<int>" THEN <<>> ELSE 0

\* VarMapImpl::Defined.
Defined(m, varname) == varname \in DOMAIN m.vars

\* VarMapImpl::Get: whether varname is found, and the value assigned to
\* *value (left as it was, T(), when it is not).
Get(m, varname) ==
  IF varname \in DOMAIN m.vars
  THEN [success |-> TRUE, value |-> m.vars[varname]]
  ELSE [success |-> FALSE, value |-> DefaultValue(m)]

\* VarMapImpl::Set: vars_[varname] = value.
Set(m, varname, value) == [m EXCEPT !.vars = (varname :> value) @@ @]

\* VarMapBase::SetMembers.
SetMembers(m, name, env, is_primitive) ==
  [m EXCEPT !.name = name, !.env = env, !.is_primitive = is_primitive]

\* Copy that constructs an empty Derived instead of copying *derived.
Copy_Empty(m, env) ==
  SetMembers([m EXCEPT !.vars = EmptyVars], m.name, env, m.is_primitive)

\* Copy without the call of SetMembers: the copy keeps the members of the
\* original, its env_ among them.
Copy_WithoutSetMembers(m, env) == m

\* VarMapImpl::Copy: the Derived copy constructor, then SetMembers.
Copy(m, env) == SetMembers(m, m.name, env, m.is_primitive)

\* A line of Print that leaves out the value.
PrintLine_WithoutValue(m, key) == m.name \o " " \o key \o " = " \o ";\n"

\* The text of one line of VarMapImpl::Print.
PrintLine(m, key) ==
  m.name \o " " \o key \o " = "
    \o (IF m.kind = "vector<int>" THEN ToStringVector(m.vars[key])
        ELSE ToStringInt(m.vars[key]))
    \o ";\n"

-----------------------------------------------------------------------------
(* Environment (the concrete class is not part of src/; section 4.2).      *)

\* Environment::CreateEmpty, with the maps of the modelled instance.
CreateEmpty(id) ==
  [types |-> EmptyVars,
   var_map |-> [t \in {"int", "int[]"} |->
                  IF t = "int" THEN NewVarMap("int", "int", "", id, TRUE)
                  ELSE NewVarMap("int[]", "vector<int>", "int", id, TRUE)]]

\* Environment::Defined: the name -> type index contains varname.
EnvDefined(env, varname) == varname \in DOMAIN env.types

\* Environment::GetVarMap: the map of varname's type.
EnvGetVarMap(env, varname) == env.var_map[env.types[varname]]

\* Environment::GetVarMapForType, defined when HasVarMapForType.
HasVarMapForType(env, type) == type \in DOMAIN env.var_map

EnvGetVarMapForType(env, type) == env.var_map[type]

\* Environment::Copy: every map is copied for the new environment and the
\* name -> type index is duplicated.
EnvCopy(env, id) ==
  [types |-> env.types,
   var_map |-> [t \in DOMAIN env.var_map |-> Copy(env.var_map[t], id)]]

\* Initializer<int>::Init: exactly one literal is parsed, or the call fails.
IsIntLiteral(tok) == tok \in IntLits

IntOf(tok) == CASE tok = "1" -> 1 [] tok = "2" -> 2 [] OTHER -> 0

-----------------------------------------------------------------------------
(* ReadAndSet.  The operators take the heap h of environments (id ->       *)
(* environment), the id e of the environment holding the map `this`, the   *)
(* type name under which it is registered there, and return the heap, the  *)
(* tokenizer, the error and whether the value came from an alias.          *)

Result(h, s, e, aliased) == [h |-> h, st |-> s, err |-> e, aliased |-> aliased]

\* ReadAndSetFromExistingVariable that sets varname to T(), the value
\* `value` holds before Get is called.
ReadAndSetFromExistingVariable_Unfetched(h, e, type, varname, s) ==
  LET this == h[e].var_map[type]
      env  == h[this.env]
  IN  IF EnvDefined(env, Peek(s))
      THEN LET var_map == EnvGetVarMap(env, Peek(s))
           IN  IF var_map.kind = this.kind
               THEN [ret |-> TRUE,
                     h |-> IF Get(var_map, Peek(s)).success
                           THEN [h EXCEPT ![e].var_map[type] =
                                   Set(this, varname, DefaultValue(this))]
                           ELSE h,
                     st |-> Next_(s)]
               ELSE [ret |-> TRUE, h |-> h, st |-> s]
      ELSE [ret |-> FALSE, h |-> h, st |-> s]

\* ReadAndSetFromExistingVariable that consumes the identifier before it
\* looks at the type of the variable's map.
ReadAndSetFromExistingVariable_EagerNext(h, e, type, varname, s) ==
  LET this == h[e].var_map[type]
      env  == h[this.env]
  IN  IF EnvDefined(env, Peek(s))
      THEN LET var_map == EnvGetVarMap(env, Peek(s))
               got == Get(var_map, Peek(s))
           IN  [ret |-> TRUE,
                h |-> IF var_map.kind = this.kind /\ got.success
                      THEN [h EXCEPT ![e].var_map[type] =
                              Set(this, varname, got.value)]
                      ELSE h,
                st |-> Next_(s)]
      ELSE [ret |-> FALSE, h |-> h, st |-> s]

\* ReadAndSetFromExistingVariable that returns `success`, the result of
\* Get, for a variable of the map's own type.
ReadAndSetFromExistingVariable_ReturnsSuccess(h, e, type, varname, s) ==
  LET this == h[e].var_map[type]
      env  == h[this.env]
  IN  IF EnvDefined(env, Peek(s))
      THEN LET var_map == EnvGetVarMap(env, Peek(s))
               got == Get(var_map, Peek(s))
           IN  IF var_map.kind = this.kind
               THEN IF got.success
                    THEN [ret |-> TRUE,
                          h |-> [h EXCEPT ![e].var_map[type] =
                                   Set(this, varname, got.value)],
                          st |-> Next_(s)]
                    ELSE [ret |-> FALSE, h |-> h, st |-> s]
               ELSE [ret |-> TRUE, h |-> h, st |-> s]
      ELSE [ret |-> FALSE, h |-> h, st |-> s]

\* VarMapImpl::ReadAndSetFromExistingVariable.
ReadAndSetFromExistingVariable(h, e, type, varname, s) ==
  LET this == h[e].var_map[type]
      env  == h[this.env]
  IN  IF EnvDefined(env, Peek(s))
      THEN LET var_map == EnvGetVarMap(env, Peek(s))
           IN  IF var_map.kind = this.kind   \* dynamic_cast<Derived *>
               THEN LET rhs_variable == Peek(s)
                        got == Get(var_map, rhs_variable)
                    IN  [ret |-> TRUE,
                         h |-> IF got.success
                               THEN [h EXCEPT ![e].var_map[type] =
                                       Set(this, varname, got.value)]
                               ELSE h,
                         st |-> Next_(s)]
               ELSE [ret |-> TRUE, h |-> h, st |-> s]
      ELSE [ret |-> FALSE, h |-> h, st |-> s]

\* VarMap<T>::ReadAndSet.
ScalarReadAndSet(h, e, type, varname, s) ==
  LET r == ReadAndSetFromExistingVariable(h, e, type, varname, s)
  IN  IF r.ret THEN Result(r.h, r.st, NoError, TRUE)
      ELSE IF IsIntLiteral(Peek(s))
           THEN Result([h EXCEPT ![e].var_map[type] =
                          Set(h[e].var_map[type], varname, IntOf(Peek(s)))],
                       Next_(s), NoError, FALSE)
           ELSE Result(h, s, InitError(varname), FALSE)

\* element_name_oss << "____" << varname << "_" << (element_idx++) << "____"
ElementName(varname, element_idx) ==
  "____" \o varname \o "_" \o ToString(element_idx) \o "____"

\* The element put before the elements read so far.
PushBack_Front(value, element) == <<element>> \o value

\* value.push_back(element)
PushBack(value, element) == Append(value, element)

\* A separator test that objects to the end of the stream only.
NotSeparator_EndOnly(tok) == tok = ""

\* The separator test: st.Peek() != "," && st.Peek() != "}"
NotSeparator(tok) == tok # "," /\ tok # "}"

\* The counter reported as it stands after the increment.
ReportedIndex_Incremented(element_idx) == element_idx

\* The index the element-initialisation error reports, element_idx - 1,
\* from the counter that was incremented when the element was named.
ReportedIndex(element_idx) == element_idx - 1

\* The element read in the environment that owns the map, not in a copy.
EnvPtr_Owner(owner) == owner

\* shared_ptr<Environment> env_ptr(Base::env()->Copy()): the pointer to the
\* new environment, whatever environment owns the map.
EnvPtr(owner) == EphemeralId

RECURSIVE EnvReadAndSet(_, _, _, _, _)
RECURSIVE ElementLoop(_, _, _, _, _, _, _)
\* The while loop of VarMap<vector<T> >::ReadAndSet, from the state in which
\* `value` holds the elements read so far and element_idx their number.
ElementLoop(h, e, type, varname, s, value, element_idx) ==
  IF Peek(s) = "}" THEN [h |-> h, st |-> s, err |-> NoError, value |-> value]
  ELSE
    LET this == h[e].var_map[type]
        env_ptr == EnvPtr(this.env)
        element_name == ElementName(varname, element_idx)
        r == EnvReadAndSet((env_ptr :> EnvCopy(h[this.env], env_ptr)) @@ h,
                           env_ptr, element_name, this.elem, s)
        \* the shared_ptr releases the copy at the end of the iteration
        h2 == [i \in DOMAIN h |-> r.h[i]]
        element_var_map == EnvGetVarMapForType(r.h[env_ptr], this.elem)
        got == Get(element_var_map, element_name)
    IN  IF r.err.kind # "none"
        THEN [h |-> h2, st |-> r.st, err |-> r.err, value |-> value]
        ELSE IF ~got.success
        THEN [h |-> h2, st |-> r.st,
              err |-> ElementInitError(ReportedIndex(element_idx + 1), varname),
              value |-> value]
        ELSE IF NotSeparator(Peek(r.st))
        THEN [h |-> h2, st |-> r.st, err |-> SyntaxError(varname),
              value |-> PushBack(value, got.value)]
        ELSE ElementLoop(h2, e, type, varname,
                         IF Peek(r.st) = "," THEN Next_(r.st) ELSE r.st,
                         PushBack(value, got.value), element_idx + 1)

\* VarMap<vector<T> >::ReadAndSet.
VectorReadAndSet(h, e, type, varname, s) ==
  LET r == ReadAndSetFromExistingVariable(h, e, type, varname, s)
  IN  IF r.ret THEN Result(r.h, r.st, NoError, TRUE)
      ELSE IF Peek(s) # "{" THEN Result(h, s, SyntaxError(varname), FALSE)
      ELSE LET l == ElementLoop(h, e, type, varname, Next_(s), <<>>, 0)
           IN  IF l.err.kind # "none" THEN Result(l.h, l.st, l.err, FALSE)
               ELSE Result([l.h EXCEPT ![e].var_map[type] =
                              Set(l.h[e].var_map[type], varname, l.value)],
                           Next_(l.st), NoError, FALSE)

\* The name -> type index after varname was read as a variable of `type`.
Register(env, varname, type) ==
  [env EXCEPT !.types = (varname :> type) @@ @]

\* Environment::ReadAndSet with a declared type: the map of the type is
\* resolved (UnknownTypeError when there is none) and reads the value; when
\* it returns, varname is a variable of that type in the name -> type index.
\* The map's ReadAndSet returns nothing: the environment is not told whether
\* a value was stored.
EnvReadAndSet(h, e, varname, type, s) ==
  IF ~HasVarMapForType(h[e], type)
  THEN Result(h, s, UnknownTypeError(varname), FALSE)
  ELSE LET r == IF h[e].var_map[type].kind = "vector<int>"
                THEN VectorReadAndSet(h, e, type, varname, s)
                ELSE ScalarReadAndSet(h, e, type, varname, s)
       IN  IF r.err.kind # "none" THEN r
           ELSE Result([r.h EXCEPT ![e] = Register(@, varname, type)],
                       r.st, r.err, r.aliased)

-----------------------------------------------------------------------------
(* The state machine.                                                      *)

NoOp == [op |-> "none", env |-> 0, varname |-> "", type |-> "",
         aliased |-> FALSE, src |-> 0]

EmptyIns == [t \in {"int", "int[]"} |-> <<>>]

Init ==
  /\ envs = (1 :> CreateEmpty(1))
  /\ st = NewStream(<<>>)
  /\ err = NoError
  /\ out = <<>>
  /\ last = NoOp
  /\ ins = (1 :> EmptyIns)
  /\ nops = 0

\* The keys of a map in the order of first insertion, after an operation
\* that took the map from `old` to `new` (at most one key is added).
Inserted(order, old, new) ==
  IF DOMAIN new.vars = DOMAIN old.vars THEN order
  ELSE order \o <<CHOOSE k \in DOMAIN new.vars : k \notin DOMAIN old.vars>>

\* The interpreter's call env->ReadAndSet(varname, st, type) on environment
\* e, with the tokens toks ahead on the stream.
ReadAndSet(e, varname, toks) ==
  /\ err.kind = "none"
  /\ e \in DOMAIN envs
  /\ \E r \in {EnvReadAndSet(envs, e, varname, DeclaredType[varname],
                            NewStream(toks))} :
         /\ envs' = r.h
         /\ st' = r.st
         /\ err' = r.err
         /\ last' = [op |-> "ReadAndSet", env |-> e, varname |-> varname,
                     type |-> DeclaredType[varname], aliased |-> r.aliased,
                     src |-> 0]
         /\ ins' = [i \in DOMAIN envs |->
                      [t \in DOMAIN ins[i] |->
                         Inserted(ins[i][t], envs[i].var_map[t],
                                  r.h[i].var_map[t])]]
  /\ UNCHANGED out

\* env2 = env1->Copy(): Environment::Copy, which calls Copy(env2) on every
\* map of env1.
CopyEnv(src, dst) ==
  /\ err.kind = "none"
  /\ src \in DOMAIN envs
  /\ dst \notin DOMAIN envs
  /\ envs' = (dst :> EnvCopy(envs[src], dst)) @@ envs
  /\ ins' = (dst :> ins[src]) @@ ins
  /\ last' = [op |-> "Copy", env |-> dst, varname |-> "", type |-> "",
              aliased |-> FALSE, src |-> src]
  /\ UNCHANGED <<st, err, out>>

\* The sequences that hold every element of S exactly once.
Orders(S) ==
  {f \in [1..Cardinality(S) -> S] : \A i, j \in DOMAIN f : f[i] = f[j] => i = j}

\* VarMapImpl::Print on the map of `type` in environment e.  The map is an
\* unordered_map: the order in which its iterator visits the entries is
\* whatever the hash table gives, any order of the keys.
PrintVarMap(e, type) ==
  /\ err.kind = "none"
  /\ e \in DOMAIN envs
  /\ LET m == envs[e].var_map[type]
     IN  \E order \in Orders(DOMAIN m.vars) :
           out' = [i \in DOMAIN order |-> PrintLine(m, order[i])]
  /\ last' = [op |-> "Print", env |-> e, varname |-> "", type |-> type,
              aliased |-> FALSE, src |-> 0]
  /\ UNCHANGED <<envs, st, err, ins>>

\* The token streams of the environment-level specification: one token, or
\* a vector initialiser of at most one literal.
Singles == {<<t>> : t \in Tokens}

EnvStreams ==
  Singles \cup {<<"{", "}">>} \cup {<<"{", l, "}">> : l \in IntLits}

\* At most MaxOps operations are performed in a behaviour of Spec.
Counted == nops < MaxOps /\ nops' = nops + 1

Next ==
  \/ \E e \in EnvIds, varname \in Names, toks \in EnvStreams :
       ReadAndSet(e, varname, toks) /\ Counted
  \/ \E src, dst \in EnvIds : CopyEnv(src, dst) /\ Counted
  \/ \E e \in EnvIds, type \in {"int", "int[]"} :
       PrintVarMap(e, type) /\ Counted

Spec == Init /\ [][Next]_vars

-----------------------------------------------------------------------------
(* The vector-grammar specification: one environment, the int variable y   *)
(* and the vector variable xs, and the streams a vector initialiser of at  *)
(* most MaxElems elements can put before VarMap<vector<T> >::ReadAndSet.   *)

\* What may stand as an element: a literal, an int variable, a variable of
\* another type.
ElemToks == IntLits \cup {"y", "xs"}

ElemSeqs == UNION {[1..n -> ElemToks] : n \in 0..MaxElems}

RECURSIVE Separated(_, _)
\* The elements es[i..], a comma between each two.
Separated(es, i) ==
  IF i > Len(es) THEN <<>>
  ELSE <<es[i]>> \o (IF i < Len(es) THEN <<",">> ELSE <<>>)
         \o Separated(es, i + 1)

\* '{ e0 , e1 , ... , e(n-1) }'
Braced(es) == <<"{">> \o Separated(es, 1) \o <<"}">>

WellFormed == {Braced(es) : es \in ElemSeqs}

Without(s, i) == SubSeq(s, 1, i - 1) \o SubSeq(s, i + 1, Len(s))

\* The initialisers whose elements are a literal or the int variable y.
Readable ==
  {Braced(es) : es \in UNION {[1..n -> {"1", "y"}] : n \in 0..MaxElems}}

\* An initialiser with one token missing: the opening brace, an element, a
\* comma or the closing brace.
OneTokenDropped ==
  UNION {{Without(s, i) : i \in 1..Len(s)} : s \in Readable}

VecStreams == Singles \cup WellFormed \cup OneTokenDropped

\* Every sequence of operations is explored: the states are finitely many.
NextVec ==
  \/ \E toks \in {<<t>> : t \in IntLits \cup {"xs"}} :
       ReadAndSet(1, "y", toks) /\ UNCHANGED nops
  \/ \E toks \in VecStreams :
       ReadAndSet(1, "xs", toks) /\ UNCHANGED nops

SpecVec == Init /\ [][NextVec]_vars

-----------------------------------------------------------------------------
(* The frame specification: one environment, the int variable y and the    *)
(* two vector variables xs and ys, so that a ReadAndSet of one vector      *)
(* variable runs while the maps hold other bindings.                       *)

\* What ys is read from.
FrameStreams == {<<"{", "}">>, <<"{", "1", "}">>}

NextFrame ==
  \/ \E toks \in {<<t>> : t \in IntLits} :
       ReadAndSet(1, "y", toks) /\ UNCHANGED nops
  \/ \E toks \in FrameStreams :
       ReadAndSet(1, "ys", toks) /\ UNCHANGED nops
  \/ \E toks \in VecStreams \cup {<<"ys">>} :
       ReadAndSet(1, "xs", toks) /\ UNCHANGED nops

SpecFrame == Init /\ [][NextFrame]_vars

-----------------------------------------------------------------------------
(* What the claims speak of.                                               *)

\* The bindings of the map of `type` in environment e of the heap E.
VarsOf(E, e, type) == E[e].var_map[type].vars

\* The value a literal token stands for.
LitValue == [l \in IntLits |-> IF l = "1" THEN 1 ELSE 2]

IntNames == {n \in Names : DeclaredType[n] = "int"}

-----------------------------------------------------------------------------
(* Claims checked under Spec.                                              *)

\* C1: aliasing copies the value.  A ReadAndSet(lhs) of the int map that
\* finds the single token rhs, a bound int variable, binds lhs to the value
\* of rhs and leaves rhs as it was; a ReadAndSet(lhs) that parses a literal
\* binds lhs to the literal's value and leaves every other binding of the map
\* as it was (so a variable that was set from lhs keeps the old value).
C1_AliasCopiesValue ==
  [][\A e \in DOMAIN envs, lhs \in IntNames :
       (last'.op = "ReadAndSet" /\ last'.env = e /\ last'.varname = lhs) =>
         /\ \A rhs \in IntNames \ {lhs} :
              (st'.toks = <<rhs>> /\ rhs \in DOMAIN VarsOf(envs, e, "int")) =>
                /\ err'.kind = "none"
                /\ lhs \in DOMAIN VarsOf(envs', e, "int")
                /\ VarsOf(envs', e, "int")[lhs] = VarsOf(envs, e, "int")[rhs]
                /\ VarsOf(envs', e, "int")[rhs] = VarsOf(envs, e, "int")[rhs]
         /\ \A l \in IntLits :
              st'.toks = <<l>> =>
                /\ lhs \in DOMAIN VarsOf(envs', e, "int")
                /\ VarsOf(envs', e, "int")[lhs] = LitValue[l]
                /\ \A n \in DOMAIN VarsOf(envs, e, "int") \ {lhs} :
                     VarsOf(envs', e, "int")[n] = VarsOf(envs, e, "int")[n]
    ]_vars

\* Three operations on the int map of environment 1: x was bound, then y,
\* then x was read again from a literal, and y holds another value than x.
C1_Witness ==
  /\ nops = 3
  /\ last.op = "ReadAndSet" /\ last.env = 1 /\ last.varname = "x"
  /\ ~last.aliased /\ err.kind = "none"
  /\ ins[1]["int"] = <<"x", "y">>
  /\ VarsOf(envs, 1, "int")["x"] # VarsOf(envs, 1, "int")["y"]

C5_AliasFalseIffUndefined ==
  /\ \A e \in DOMAIN envs, n \in Names, toks \in Singles :
       LET s == NewStream(toks)
           r == ReadAndSetFromExistingVariable(envs, e, DeclaredType[n], n, s)
       IN  /\ r.ret <=> Peek(s) \in DOMAIN envs[e].types
           /\ ~r.ret => (r.st = s /\ r.h = envs)
  /\ last.op = "ReadAndSet" =>
       (last.aliased <=> st.toks[1] \in DOMAIN envs[last.env].types)

\* A variable was read from a literal while the environment already defined
\* two variables, one of them without a value: the resolution returned false
\* for the literal and returns true for both variables.
C5_Witness ==
  /\ last.op = "ReadAndSet" /\ ~last.aliased /\ err.kind = "none"
  /\ st.toks[1] \in IntLits
  /\ \E n \in DOMAIN envs[1].types :
       n \notin DOMAIN envs[1].var_map[envs[1].types[n]].vars
  /\ Cardinality(DOMAIN envs[1].types) >= 2

\* C7: Copy(targetEnv) returns a map whose bindings, type name and primitive
\* flag are those of the original at the time of the copy and whose owning
\* environment is targetEnv; afterwards a ReadAndSet on a map of one
\* environment leaves every map of the other environment as it was.
C7_CopyIndependent ==
  [][/\ last'.op = "Copy" =>
          \A t \in DOMAIN envs[last'.src].var_map :
            LET o == envs[last'.src].var_map[t]
                c == envs'[last'.env].var_map[t]
            IN  /\ c.vars = o.vars
                /\ c.name = o.name
                /\ c.is_primitive = o.is_primitive
                /\ c.env = last'.env
     /\ last'.op = "ReadAndSet" =>
          \A e \in DOMAIN envs \ {last'.env} : envs'[e] = envs[e]
    ]_vars

\* Environment 2 is a copy of environment 1, x was bound at the time of the
\* copy, and a later ReadAndSet has given x another value in one of them.
C7_Witness ==
  /\ DOMAIN envs = {1, 2}
  /\ last.op = "ReadAndSet" /\ last.varname = "x" /\ err.kind = "none"
  /\ ins[1]["int"] = <<"x">> /\ ins[2]["int"] = <<"x">>
  /\ VarsOf(envs, 1, "int")["x"] # VarsOf(envs, 2, "int")["x"]

\* C8: every variable name is bound in at most one map, and a name is in
\* the name -> type index if and only if the map of its indexed type holds
\* a value for it.
C8_IndexConsistent ==
  \A e \in DOMAIN envs, n \in Names :
    /\ Cardinality({t \in DOMAIN envs[e].var_map :
                      n \in DOMAIN envs[e].var_map[t].vars}) <= 1
    /\ n \in DOMAIN envs[e].types =>
         n \in DOMAIN envs[e].var_map[envs[e].types[n]].vars
    /\ \A t \in DOMAIN envs[e].var_map :
         n \in DOMAIN envs[e].var_map[t].vars =>
           (n \in DOMAIN envs[e].types /\ envs[e].types[n] = t)

\* The text Print is to write for a value of the modelled instance.
IntText(value) == CASE value = 1 -> "1" [] value = 2 -> "2" [] OTHER -> "?"

VectorText(value) ==
  CASE value = <<>> -> "{}"
    [] value = <<1>> -> "{1}"
    [] value = <<2>> -> "{2}"
    [] OTHER -> "?"

\* '<typeName> <varname> = <valueText>;'
ExpectedLine(m, key) ==
  m.name \o " " \o key \o " = "
    \o (IF m.name = "int" THEN IntText(m.vars[key])
        ELSE VectorText(m.vars[key]))
    \o ";\n"

\* C10 as claimed: Print writes one line per bound variable, in the order
\* in which the variables were first inserted into the map.
C10_PrintInInsertionOrder ==
  last.op = "Print" =>
    LET m == envs[last.env].var_map[last.type]
        order == ins[last.env][last.type]
    IN  out = [i \in DOMAIN order |-> ExpectedLine(m, order[i])]

\* C10 as amended: Print writes exactly one line '<typeName> <varname> =
\* <valueText>;' per bound variable and no other line, in some order of the
\* variables, and changes no binding.
C10_PrintOneLinePerVariable ==
  [][last'.op = "Print" =>
       LET m == envs[last'.env].var_map[last'.type]
       IN  /\ envs' = envs
           /\ Len(out') = Cardinality(DOMAIN m.vars)
           /\ \A key \in DOMAIN m.vars :
                \E i \in DOMAIN out' : out'[i] = ExpectedLine(m, key)
           /\ \A i \in DOMAIN out' :
                \E key \in DOMAIN m.vars : out'[i] = ExpectedLine(m, key)
    ]_vars

\* The int map holds x and y, inserted in this order, and Print wrote the
\* line of y before the line of x.
C10_Witness ==
  /\ last.op = "Print" /\ last.type = "int"
  /\ ins[last.env]["int"] = <<"x", "y">>
  /\ Len(out) = 2
  /\ out[1] = ExpectedLine(envs[last.env].var_map["int"], "y")
  /\ out[2] = ExpectedLine(envs[last.env].var_map["int"], "x")

-----------------------------------------------------------------------------
(* Claims checked under SpecVec.                                           *)

\* An element token the per-element ReadAndSet turns into a value in the
\* environment E: a literal, or an int variable that holds a value.
Parseable(E, tok) == tok \in IntLits \/ tok \in DOMAIN VarsOf(E, 1, "int")

ElemValue(E, tok) ==
  IF tok \in IntLits THEN LitValue[tok] ELSE VarsOf(E, 1, "int")[tok]

\* An element token that names a defined variable whose value cannot be
\* fetched from the int map: a variable of another type, or an int variable
\* without a value.
Unfetchable(E, tok) ==
  /\ EnvDefined(E[1], tok)
  /\ E[1].types[tok] # "int" \/ tok \notin DOMAIN VarsOf(E, 1, "int")

\* The tokens toks open an initialiser and hold k elements that can be read,
\* at the positions 2, 4, ..., 2k, a comma after each but the last.
ReadsElements(E, toks, k) ==
  /\ Len(toks) >= 2 * k
  /\ toks[1] = "{"
  /\ \A j \in 1..k : Parseable(E, toks[2 * j])
  /\ \A j \in 1..(k - 1) : toks[2 * j + 1] = ","

\* C2: ReadAndSet of the vector map on '{ e0 , e1 , ... , e(n-1) }', each
\* element a literal or a bound int variable, binds xs to the sequence of
\* exactly n elements whose i-th element is the value of e_i; '{ }' binds
\* the empty sequence.
C2_VectorInSourceOrder ==
  (last.op = "ReadAndSet" /\ last.varname = "xs") =>
    \A n \in 0..Len(st.toks) :
      ( /\ ReadsElements(envs, st.toks, n)
        /\ Len(st.toks) = 2 * n + (IF n = 0 THEN 2 ELSE 1)
        /\ st.toks[Len(st.toks)] = "}" ) =>
        /\ err.kind = "none"
        /\ "xs" \in DOMAIN VarsOf(envs, 1, "int[]")
        /\ Len(VarsOf(envs, 1, "int[]")["xs"]) = n
        /\ \A i \in 1..n :
             VarsOf(envs, 1, "int[]")["xs"][i] = ElemValue(envs, st.toks[2 * i])

\* xs was read from '{ 2 , 1 }' and holds <<2, 1>>.
C2_Witness ==
  /\ last.op = "ReadAndSet" /\ last.varname = "xs"
  /\ st.toks = <<"{", "2", ",", "1", "}">>
  /\ VarsOf(envs, 1, "int[]")["xs"] = <<2, 1>>

C6_ElementAliasByValue ==
  [][/\ (last'.op = "ReadAndSet" /\ last'.varname = "xs") =>
          \A l \in IntLits :
            ( /\ st'.toks = <<"{", "y", ",", l, "}">>
              /\ "y" \in DOMAIN VarsOf(envs, 1, "int") ) =>
              /\ err'.kind = "none"
              /\ VarsOf(envs', 1, "int[]")["xs"]
                   = <<VarsOf(envs, 1, "int")["y"], LitValue[l]>>
     /\ (last'.op = "ReadAndSet" /\ last'.varname = "y") =>
          VarsOf(envs', 1, "int[]") = VarsOf(envs, 1, "int[]")
    ]_vars

\* y was read again after xs was bound to two elements, and the first
\* element of xs is not the value y holds now.
C6_Witness ==
  /\ last.op = "ReadAndSet" /\ last.varname = "y" /\ err.kind = "none"
  /\ "y" \in DOMAIN VarsOf(envs, 1, "int")
  /\ "xs" \in DOMAIN VarsOf(envs, 1, "int[]")
  /\ Len(VarsOf(envs, 1, "int[]")["xs"]) = 2
  /\ VarsOf(envs, 1, "int[]")["xs"][1] # VarsOf(envs, 1, "int")["y"]

\* C9: when, after i elements were read, the next element names a defined
\* variable whose value cannot be fetched from the int map of the ephemeral
\* environment (a variable of another type, or an int variable without a
\* value), ReadAndSet of xs fails with the element-initialisation error
\* that reports index i and the name xs, and the environment is as it was.
C9_ElementInitErrorReportsIndex ==
  [][(last'.op = "ReadAndSet" /\ last'.varname = "xs") =>
       \A i \in 0..Len(st'.toks) :
         ( /\ Len(st'.toks) >= 2 * i + 2
           /\ ReadsElements(envs, st'.toks, i)
           /\ i > 0 => st'.toks[2 * i + 1] = ","
           /\ Unfetchable(envs, st'.toks[2 * i + 2]) ) =>
           /\ err'.kind = "ElementInitError"
           /\ err'.idx = i
           /\ err'.var = "xs"
           /\ envs' = envs
    ]_vars

\* The second element of an initialiser of xs named xs itself, a variable of
\* type int[]: the error reports index 1.
C9_Witness ==
  /\ last.op = "ReadAndSet" /\ last.varname = "xs"
  /\ err = [kind |-> "ElementInitError", idx |-> 1, var |-> "xs"]
  /\ Len(st.toks) >= 4 /\ st.toks[4] = "xs"
  /\ "xs" \in DOMAIN VarsOf(envs, 1, "int[]")

-----------------------------------------------------------------------------
(* Claims checked under SpecFrame.                                         *)

\* The synthesized names of the elements of an initialiser of varname.
ElementNames(varname) == {ElementName(varname, i) : i \in 0..MaxElems}

\* C11: ReadAndSet of a vector variable changes the owning environment only
\* by binding varname in the vector map, whether it succeeds or fails: the
\* int map and every other binding of the vector map are as they were, no
\* synthesized element name is bound in a map of the owning environment or
\* defined in its index, the index changes at varname at most, and no
\* environment is left besides the owning one;
\* the synthesized name of an element is bound in the copy that reads it.
C11_VectorFrameEffect ==
  [][(last'.op = "ReadAndSet" /\ last'.type = "int[]") =>
       LET v == last'.varname
           copy == (EphemeralId :> EnvCopy(envs[1], EphemeralId)) @@ envs
       IN  /\ DOMAIN envs' = DOMAIN envs
           /\ envs'[1].var_map["int"] = envs[1].var_map["int"]
           /\ DOMAIN VarsOf(envs', 1, "int[]")
                \subseteq DOMAIN VarsOf(envs, 1, "int[]") \cup {v}
           /\ \A n \in DOMAIN VarsOf(envs, 1, "int[]") \ {v} :
                /\ n \in DOMAIN VarsOf(envs', 1, "int[]")
                /\ VarsOf(envs', 1, "int[]")[n] = VarsOf(envs, 1, "int[]")[n]
           /\ [envs'[1].var_map["int[]"] EXCEPT !.vars = EmptyVars]
                = [envs[1].var_map["int[]"] EXCEPT !.vars = EmptyVars]
           /\ DOMAIN envs'[1].types \subseteq DOMAIN envs[1].types \cup {v}
           /\ \A n \in DOMAIN envs[1].types \ {v} :
                n \in DOMAIN envs'[1].types /\ envs'[1].types[n] = envs[1].types[n]
           /\ \A n \in ElementNames(v) :
                /\ ~EnvDefined(envs'[1], n)
                /\ \A t \in DOMAIN envs'[1].var_map :
                     ~Defined(envs'[1].var_map[t], n)
           /\ \A l \in IntLits :
                LET r == EnvReadAndSet(copy, EphemeralId, ElementName(v, 0),
                                       "int", NewStream(<<l>>))
                IN  /\ Defined(r.h[EphemeralId].var_map["int"],
                               ElementName(v, 0))
                    /\ r.h[1] = envs[1]
    ]_vars

\* xs was read from an initialiser of two elements while y and ys were
\* bound and xs held another value; y, ys and the new xs are the bindings.
C11_Witness ==
  /\ last.op = "ReadAndSet" /\ last.varname = "xs" /\ err.kind = "none"
  /\ Len(st.toks) = 5
  /\ DOMAIN VarsOf(envs, 1, "int") = {"y"}
  /\ DOMAIN VarsOf(envs, 1, "int[]") = {"xs", "ys"}
  /\ ins[1]["int[]"] = <<"xs", "ys">>
  /\ Len(VarsOf(envs, 1, "int[]")["xs"]) = 2

====
